---- MODULE Spec2Model ----
(***************************************************************************)
(* Model of the font-metadata inference (compiler/src/font/web/mod.rs),    *)
(* the browser font registry (same file), the exporter preparation        *)
(* (cli/src/export.rs) and the render entry point (renderer/src/lib.rs).   *)
(*                                                                         *)
(* Strings are TLA+ strings; Len, SubSeq and \o act on them character by   *)
(* character, so substring search, prefix tests and lower-casing are       *)
(* computed on the real characters.                                        *)
(***************************************************************************)
EXTENDS Integers, Sequences, FiniteSets, TLC

VARIABLES
    web_font,     \* WebFontInfo handed to infer_info_from_web_font
    font_info,    \* its Result<FontInfo, JsValue>, or Pending
    book,         \* BrowserFontSearcher.book : sequence of FontInfo
    fonts,        \* BrowserFontSearcher.fonts : sequence of FontSlot
    last_add,     \* the last add_* call on the searcher and how it ended
    args,         \* CompileArgs + entry file handed to prepare_exporters
    exporters,    \* what prepare_exporters produced, or Pending
    renders,      \* log of TypstRenderer::render calls and their outcomes
    host_font,    \* host descriptor handed to FontBuilder::font_web_to_typst
    converted,    \* what font_web_to_typst made of it, or Pending
    aborted       \* TRUE once a panic has ended the process / wasm instance

vars == <<web_font, font_info, book, fonts, last_add, args, exporters, renders,
          host_font, converted, aborted>>

Pending == [state |-> "pending"]
NoCall == [op |-> "none"]

-----------------------------------------------------------------------------
(* Bounds of the model *)

MaxStyleWords == 2
MaxFormats == 3
MaxBatch == 2
MaxFaces == 4
MaxRenders == 4
MaxPages == 2
MaxCacheFaces == 2

-----------------------------------------------------------------------------
(* str primitives *)

UpperCase == "ABCDEFGHIJKLMNOPQRSTUVWXYZ"
LowerCase == "abcdefghijklmnopqrstuvwxyz"

\* u8::to_ascii_lowercase on one character
to_ascii_lowercase(c) ==
    IF \E i \in 1..Len(UpperCase) : SubSeq(UpperCase, i, i) = c
    THEN LET i == CHOOSE i \in 1..Len(UpperCase) : SubSeq(UpperCase, i, i) = c
         IN  SubSeq(LowerCase, i, i)
    ELSE c

RECURSIVE make_ascii_lowercase(_)
make_ascii_lowercase(s) ==
    IF Len(s) = 0 THEN ""
    ELSE IF Len(s) = 1 THEN to_ascii_lowercase(s)
    ELSE LET h == Len(s) \div 2
         IN  make_ascii_lowercase(SubSeq(s, 1, h)) \o make_ascii_lowercase(SubSeq(s, h + 1, Len(s)))

\* str::contains(&str)
contains(s, pat) ==
    \E i \in 1..(Len(s) - Len(pat) + 1) : SubSeq(s, i, i + Len(pat) - 1) = pat

\* str::starts_with(&str)
starts_with(s, pat) ==
    Len(s) >= Len(pat) /\ SubSeq(s, 1, Len(pat)) = pat

is_empty(s) == Len(s) = 0

-----------------------------------------------------------------------------
(* font_family_web_to_typst *)

\* crate::font::info::typst_typographic_family: the canonical family of a
\* name, kept as an uninterpreted value of that name.
typst_typographic_family(name) == [typographic_family_of |-> name]

Ok(v) == [ok |-> TRUE, val |-> v]
Err(e) == [ok |-> FALSE, err |-> e]

EmptyFamilyMsg == "empty family (cannot infer from font.family and font.fullName)"

font_family_web_to_typst(family, full_name) ==
    LET fam == IF \/ starts_with(family, "Noto")
                  \/ starts_with(family, "NewCM")
                  \/ starts_with(family, "NewComputerModern")
               THEN full_name
               ELSE family
    IN  IF is_empty(fam)
        THEN Err(EmptyFamilyMsg)
        ELSE Ok(typst_typographic_family(fam))

-----------------------------------------------------------------------------
(* infer_info_from_web_font *)

search_scopes(d) ==
    << make_ascii_lowercase(d.style),
       make_ascii_lowercase(d.postscript_name),
       make_ascii_lowercase(d.full_name) >>

\* FontStyle from the lower-cased full name
infer_style(full) ==
    LET italic == contains(full, "italic")
        oblique == contains(full, "oblique") \/ contains(full, "slanted")
    IN  IF italic THEN "Italic"
        ELSE IF oblique THEN "Oblique"
        ELSE "Normal"

WeightKeywords ==
    << "thin", "extralight", "extra light", "extra-light", "light", "regular",
       "medium", "semibold", "semi bold", "semi-bold", "bold", "extrabold",
       "extra bold", "extra-bold", "black" >>

\* match search_style { ... } of the weight loop
guess_weight(search_style) ==
    CASE search_style = "thin" -> "THIN"
      [] search_style \in {"extralight", "extra light", "extra-light"} -> "EXTRALIGHT"
      [] search_style = "light" -> "LIGHT"
      [] search_style = "regular" -> "REGULAR"
      [] search_style = "medium" -> "MEDIUM"
      [] search_style \in {"semibold", "semi bold", "semi-bold"} -> "SEMIBOLD"
      [] search_style = "bold" -> "BOLD"
      [] search_style \in {"extrabold", "extra bold", "extra-bold"} -> "EXTRABOLD"
      [] search_style = "black" -> "BLACK"

None == "None"
unwrap_or(opt, default) == IF opt = None THEN default ELSE opt

\* A variant of the scope loop in which a fallback, once recorded, is kept
\* (first fallback wins instead of last).
RECURSIVE weight_loop_first_fallback(_, _, _, _)
weight_loop_first_fallback(scopes, ki, idx, secondary) ==
    IF ki > Len(WeightKeywords) THEN [weight |-> None, secondary_weight |-> secondary]
    ELSE IF idx > Len(scopes) THEN weight_loop_first_fallback(scopes, ki + 1, 1, secondary)
    ELSE IF contains(scopes[idx], WeightKeywords[ki])
         THEN IF idx = 1
              THEN [weight |-> guess_weight(WeightKeywords[ki]), secondary_weight |-> secondary]
              ELSE weight_loop_first_fallback(scopes, ki, idx + 1,
                       IF secondary = None THEN guess_weight(WeightKeywords[ki]) ELSE secondary)
         ELSE weight_loop_first_fallback(scopes, ki, idx + 1, secondary)

\* 'searchLoop of the weight block: keyword ki, scope idx (1-based; idx = 1
\* is the code's idx == 0), carrying secondary_weight.
RECURSIVE weight_loop(_, _, _, _)
weight_loop(scopes, ki, idx, secondary) ==
    IF ki > Len(WeightKeywords) THEN [weight |-> None, secondary_weight |-> secondary]
    ELSE IF idx > Len(scopes) THEN weight_loop(scopes, ki + 1, 1, secondary)
    ELSE IF contains(scopes[idx], WeightKeywords[ki])
         THEN IF idx = 1
              THEN [weight |-> guess_weight(WeightKeywords[ki]), secondary_weight |-> secondary]
              ELSE weight_loop(scopes, ki, idx + 1, guess_weight(WeightKeywords[ki]))
         ELSE weight_loop(scopes, ki, idx + 1, secondary)

infer_weight(scopes) ==
    LET r == weight_loop(scopes, 1, 1, None)
    IN  unwrap_or(r.weight, unwrap_or(r.secondary_weight, "REGULAR"))

StretchKeywords ==
    << "ultracondensed", "ultra_condensed", "ultra-condensed",
       "extracondensed", "extra_condensed", "extra-condensed",
       "condensed",
       "semicondensed", "semi_condensed", "semi-condensed",
       "normal",
       "semiexpanded", "semi_expanded", "semi-expanded",
       "expanded",
       "extraexpanded", "extra_expanded", "extra-expanded",
       "ultraexpanded", "ultra_expanded", "ultra-expanded" >>

\* match search_style { ... } of the stretch loop
guess_stretch(search_style) ==
    CASE search_style \in {"ultracondensed", "ultra_condensed", "ultra-condensed"} -> "ULTRA_CONDENSED"
      [] search_style \in {"extracondensed", "extra_condensed", "extra-condensed"} -> "EXTRA_CONDENSED"
      [] search_style = "condensed" -> "CONDENSED"
      [] search_style \in {"semicondensed", "semi_condensed", "semi-condensed"} -> "SEMI_CONDENSED"
      [] search_style = "normal" -> "NORMAL"
      [] search_style \in {"semiexpanded", "semi_expanded", "semi-expanded"} -> "SEMI_EXPANDED"
      [] search_style = "expanded" -> "EXPANDED"
      [] search_style \in {"extraexpanded", "extra_expanded", "extra-expanded"} -> "EXTRA_EXPANDED"
      [] search_style \in {"ultraexpanded", "ultra_expanded", "ultra-expanded"} -> "ULTRA_EXPANDED"
      [] OTHER -> None

\* A variant of the stretch loop that accepts a match in any scope.
RECURSIVE stretch_loop_any_scope(_, _, _)
stretch_loop_any_scope(scopes, ki, idx) ==
    IF ki > Len(StretchKeywords) THEN None
    ELSE IF idx > Len(scopes) THEN stretch_loop_any_scope(scopes, ki + 1, 1)
    ELSE IF contains(scopes[idx], StretchKeywords[ki]) /\ guess_stretch(StretchKeywords[ki]) # None
         THEN guess_stretch(StretchKeywords[ki])
         ELSE stretch_loop_any_scope(scopes, ki, idx + 1)

\* 'searchLoop of the stretch block
RECURSIVE stretch_loop(_, _, _)
stretch_loop(scopes, ki, idx) ==
    IF ki > Len(StretchKeywords) THEN None
    ELSE IF idx > Len(scopes) THEN stretch_loop(scopes, ki + 1, 1)
    ELSE IF /\ contains(scopes[idx], StretchKeywords[ki])
            /\ guess_stretch(StretchKeywords[ki]) # None
            /\ idx = 1
         THEN guess_stretch(StretchKeywords[ki])
         ELSE stretch_loop(scopes, ki, idx + 1)

infer_stretch(scopes) == unwrap_or(stretch_loop(scopes, 1, 1), "NORMAL")

\* A variant of the flag guess that looks at the style scope only.
infer_flags_style_only(scopes) ==
    IF contains(scopes[1], "mono") THEN {"MONOSPACE"}
    ELSE IF contains(scopes[1], "serif") THEN {"SERIF"}
    ELSE {}

\* the flags block: union over the three scopes (the family is not a scope)
infer_flags(scopes) ==
    UNION { IF contains(scopes[i], "mono") THEN {"MONOSPACE"}
            ELSE IF contains(scopes[i], "serif") THEN {"SERIF"}
            ELSE {} : i \in 1..Len(scopes) }

FullCoverage == "[0, 4294967295]"

infer_info_from_web_font(d) ==
    LET family == font_family_web_to_typst(d.family, d.full_name)
        scopes == search_scopes(d)
    IN  IF ~family.ok THEN family
        ELSE Ok([ family |-> family.val,
                  variant |-> [ style |-> infer_style(scopes[3]),
                                weight |-> infer_weight(scopes),
                                stretch |-> infer_stretch(scopes) ],
                  flags |-> infer_flags(scopes),
                  coverage |-> FullCoverage ])

-----------------------------------------------------------------------------
(* Descriptors handed to infer_info_from_web_font *)

RECURSIVE JoinWords(_)
JoinWords(ws) ==
    IF Len(ws) = 0 THEN ""
    ELSE IF Len(ws) = 1 THEN ws[1]
    ELSE ws[1] \o " " \o JoinWords(Tail(ws))

StyleWords == {"Bold", "extrabold", "Light", "Condensed", "semicondensed", "Mono"}

SeqsUpTo(S, n) == UNION { [1..k -> S] : k \in 0..n }

Styles == { JoinWords(ws) : ws \in SeqsUpTo(StyleWords, MaxStyleWords) }

Families == {"", "Example", "Courier Mono", "Noto Sans", "NewCMMath"}

FullNames == {"", "Example Bold Italic", "Example Condensed", "Noto Sans Mono Light",
              "DejaVu Serif ExtraBold Oblique", "Courier Mono"}

PostscriptNames == {"", "Example-BoldItalic", "NotoSansMono-Light", "DejaVuSerif-Thin"}

WebFontInfos ==
    [ family : Families, full_name : FullNames,
      postscript_name : PostscriptNames, style : Styles ]

NoWebFont == [family |-> "", full_name |-> "", postscript_name |-> "", style |-> ""]

-----------------------------------------------------------------------------
(* Inference of one descriptor *)

InitInfer ==
    /\ web_font \in WebFontInfos
    /\ font_info = Pending
    /\ host_font = <<>>
    /\ converted = Pending
    /\ book = <<>>
    /\ fonts = <<>>
    /\ last_add = NoCall
    /\ args = NoCall
    /\ exporters = Pending
    /\ renders = <<>>
    /\ aborted = FALSE

InferInfo ==
    /\ font_info = Pending
    /\ font_info' = infer_info_from_web_font(web_font)
    /\ UNCHANGED <<host_font, converted, web_font, book, fonts, last_add, args, exporters, renders, aborted>>

NextInfer == InferInfo

SpecInfer == InitInfer /\ [][NextInfer]_vars

Inferred == font_info # Pending /\ font_info.ok

SetMin(S) == CHOOSE x \in S : \A y \in S : x <= y
SetMax(S) == CHOOSE x \in S : \A y \in S : x >= y

\* keywords of a list that occur in a scope
Hits(keywords, scope) == { i \in 1..Len(keywords) : contains(scope, keywords[i]) }

ExampleWebFont ==
    [ family |-> "Example", full_name |-> "Example Bold Italic",
      postscript_name |-> "Example-BoldItalic", style |-> "" ]

\* C1: the weight is that of the first keyword (in list order) found in the
\* lower-cased style; failing that, that of the last keyword found in the
\* lower-cased postscript_name or full_name; failing that, REGULAR.  The
\* example descriptor gets BOLD.
C1_WeightRule ==
    Inferred =>
        LET scopes == search_scopes(web_font)
            definitive == Hits(WeightKeywords, scopes[1])
            fallback == Hits(WeightKeywords, scopes[2]) \cup Hits(WeightKeywords, scopes[3])
            weight == font_info.val.variant.weight
        IN  /\ weight = IF definitive # {} THEN guess_weight(WeightKeywords[SetMin(definitive)])
                        ELSE IF fallback # {} THEN guess_weight(WeightKeywords[SetMax(fallback)])
                        ELSE "REGULAR"
            /\ web_font = ExampleWebFont => weight = "BOLD"

C1_Witness ==
    /\ Inferred
    /\ web_font = ExampleWebFont
    /\ font_info.val.variant.weight = "BOLD"

\* C2: the stretch is that of the first keyword (in list order) found in the
\* lower-cased style, and NORMAL when the style holds no stretch keyword,
\* whatever postscript_name and full_name contain.
C2_StretchRule ==
    Inferred =>
        LET scopes == search_scopes(web_font)
            definitive == Hits(StretchKeywords, scopes[1])
            stretch == font_info.val.variant.stretch
        IN  /\ stretch = IF definitive # {} THEN guess_stretch(StretchKeywords[SetMin(definitive)])
                         ELSE "NORMAL"
            /\ (web_font.style = "" /\ contains(scopes[3], "condensed")) => stretch = "NORMAL"

C2_Witness ==
    /\ Inferred
    /\ web_font.style = ""
    /\ contains(make_ascii_lowercase(web_font.full_name), "condensed")
    /\ font_info.val.variant.stretch = "NORMAL"

GenericPrefixes == {"Noto", "NewCM", "NewComputerModern"}

\* C3: full_name stands in for a family that is empty or starts with a
\* generic prefix; the call fails only when the name is still empty then,
\* and otherwise returns the canonical form of that name.
C3_FamilyResolution ==
    font_info # Pending =>
        LET substituted == \/ web_font.family = ""
                           \/ \E p \in GenericPrefixes : starts_with(web_font.family, p)
            name == IF substituted THEN web_font.full_name ELSE web_font.family
        IN  IF name = "" THEN ~font_info.ok /\ font_info.err = EmptyFamilyMsg
            ELSE font_info.ok /\ font_info.val.family = typst_typographic_family(name)

NoSerifScope(d) == \A i \in 1..3 : ~contains(search_scopes(d)[i], "serif")

\* C4 (as stated): family "Courier Mono" and no "serif" in style,
\* postscript_name, full_name gives Monospace set and Serif unset.
C4_CourierMonoIsMonospace ==
    (font_info # Pending /\ web_font.family = "Courier Mono" /\ NoSerifScope(web_font)) =>
        font_info.ok /\ font_info.val.flags = {"MONOSPACE"}

\* C4 (amended): with family "Courier Mono" and no "serif" in the three
\* scopes, Serif is unset and Monospace is set exactly when one of the
\* lower-cased style, postscript_name, full_name contains "mono".
C4_FlagsFromScopes ==
    (font_info # Pending /\ web_font.family = "Courier Mono" /\ NoSerifScope(web_font)) =>
        /\ font_info.ok
        /\ "SERIF" \notin font_info.val.flags
        /\ "MONOSPACE" \in font_info.val.flags
             <=> \E i \in 1..3 : contains(search_scopes(web_font)[i], "mono")

C4_Witness ==
    /\ Inferred
    /\ web_font.family = "Courier Mono"
    /\ web_font.style = ""
    /\ web_font.full_name = "Courier Mono"
    /\ font_info.val.flags = {"MONOSPACE"}

NoKeywordIn(scope) ==
    Hits(WeightKeywords, scope) = {} /\ Hits(StretchKeywords, scope) = {}

\* C12: when the style is exactly a keyword k of the weight (stretch) list
\* and postscript_name and full_name hold no keyword, the weight (stretch)
\* is the preset that k names.
C12_KeywordGetsItsPreset ==
    (Inferred /\ NoKeywordIn(search_scopes(web_font)[2])
              /\ NoKeywordIn(search_scopes(web_font)[3])) =>
        /\ \A i \in 1..Len(WeightKeywords) :
              web_font.style = WeightKeywords[i] =>
                  font_info.val.variant.weight = guess_weight(WeightKeywords[i])
        /\ \A i \in 1..Len(StretchKeywords) :
              web_font.style = StretchKeywords[i] =>
                  font_info.val.variant.stretch = guess_stretch(StretchKeywords[i])

-----------------------------------------------------------------------------
(* String order (Ord for str: byte-wise lexicographic) *)

\* the characters used, in ascending byte order
Ascii == " -./0123456789:ABCDEFGHIJKLMNOPQRSTUVWXYZ_abcdefghijklmnopqrstuvwxyz"

byte(c) == CHOOSE i \in 1..Len(Ascii) : SubSeq(Ascii, i, i) = c

RECURSIVE str_lt(_, _)
str_lt(a, b) ==
    IF Len(b) = 0 THEN FALSE
    ELSE IF Len(a) = 0 THEN TRUE
    ELSE IF byte(SubSeq(a, 1, 1)) # byte(SubSeq(b, 1, 1))
         THEN byte(SubSeq(a, 1, 1)) < byte(SubSeq(b, 1, 1))
         ELSE str_lt(SubSeq(a, 2, Len(a)), SubSeq(b, 2, Len(b)))

\* Vec<String>::sort, as an insertion into the sorted tail
RECURSIVE insert_sorted(_, _)
insert_sorted(x, v) ==
    IF Len(v) = 0 THEN <<x>>
    ELSE IF str_lt(v[1], x) THEN <<v[1]>> \o insert_sorted(x, Tail(v))
    ELSE <<x>> \o v

RECURSIVE sort(_)
sort(v) == IF Len(v) = 0 THEN <<>> ELSE insert_sorted(v[1], sort(Tail(v)))

\* Vec::dedup: drops an element equal to its predecessor
RECURSIVE dedup(_)
dedup(v) ==
    IF Len(v) <= 1 THEN v
    ELSE IF v[1] = v[2] THEN dedup(Tail(v))
    ELSE <<v[1]>> \o dedup(Tail(v))

-----------------------------------------------------------------------------
(* std::path: a path is the sequence of its components *)

RECURSIVE split_components(_, _, _)
split_components(s, cur, acc) ==
    IF Len(s) = 0 THEN (IF cur = "" THEN acc ELSE Append(acc, cur))
    ELSE IF SubSeq(s, 1, 1) = "/"
         THEN split_components(SubSeq(s, 2, Len(s)), "",
                               IF cur = "" THEN acc ELSE Append(acc, cur))
         ELSE split_components(SubSeq(s, 2, Len(s)), cur \o SubSeq(s, 1, 1), acc)

RootDir == "/"

\* Path::new(&str)
Path_new(s) ==
    IF starts_with(s, "/") THEN <<RootDir>> \o split_components(s, "", <<>>)
    ELSE split_components(s, "", <<>>)

\* Path::file_name
file_name(p) ==
    IF Len(p) = 0 \/ p[Len(p)] \in {RootDir, ".."} THEN None ELSE p[Len(p)]

\* Path::parent
parent(p) ==
    IF Len(p) = 0 \/ p = <<RootDir>> THEN None ELSE SubSeq(p, 1, Len(p) - 1)

\* PathBuf::push of a relative component
push(p, c) == Append(p, c)

\* A variant of with_file_name that keeps the last component (a join).
with_file_name_joined(p, name) == push(p, name)

\* Path::with_file_name: replaces the last component
with_file_name(p, name) ==
    IF file_name(p) # None THEN push(SubSeq(p, 1, Len(p) - 1), name) ELSE push(p, name)

\* position of the last '.' of a name, 0 when there is none
RECURSIVE rfind_dot(_, _)
rfind_dot(name, i) ==
    IF i = 0 THEN 0
    ELSE IF SubSeq(name, i, i) = "." THEN i
    ELSE rfind_dot(name, i - 1)

\* Path::file_stem of a file name
file_stem(name) ==
    LET dot == rfind_dot(name, Len(name))
    IN  IF name = ".." \/ dot <= 1 THEN name ELSE SubSeq(name, 1, dot - 1)

\* Path::with_extension
with_extension(p, ext) ==
    IF file_name(p) = None THEN p
    ELSE LET stem == file_stem(file_name(p))
         IN  push(SubSeq(p, 1, Len(p) - 1),
                  IF ext = "" THEN stem ELSE stem \o "." \o ext)

-----------------------------------------------------------------------------
(* prepare_exporters *)

DefaultWsUrl == "127.0.0.1:23625"

\* the output_dir block
output_dir(a) ==
    LET dir == IF ~is_empty(a.output) THEN Path_new(a.output)
               ELSE parent(Path_new(a.entry_file))
    IN  push(dir, "output")

\* A variant of the formats block without the dedup call.
formats_without_dedup(a) ==
    LET f1 == IF ~is_empty(a.web_socket) THEN Append(a.format, "web_socket") ELSE a.format
        f2 == IF Len(f1) = 0 THEN <<"pdf", "json">> ELSE f1
    IN  sort(f2)

\* the formats block
formats(a) ==
    LET f1 == IF ~is_empty(a.web_socket) THEN Append(a.format, "web_socket") ELSE a.format
        f2 == IF Len(f1) = 0 THEN <<"pdf", "json">> ELSE f1
    IN  dedup(sort(f2))

output_path(a, ext) ==
    with_extension(with_file_name(output_dir(a), file_name(Path_new(a.entry_file))), ext)

Returned(docs, arts) ==
    [outcome |-> "returned", doc_exporters |-> docs, artifact_exporters |-> arts]
Panicked(msg) == [outcome |-> "panic", msg |-> msg]

\* the `for f in formats` loop with its match
RECURSIVE exporters_loop(_, _, _, _)
exporters_loop(a, fs, docs, arts) ==
    IF Len(fs) = 0 THEN Returned(docs, arts)
    ELSE LET f == fs[1] IN
         CASE f = "pdf" ->
                exporters_loop(a, Tail(fs),
                    Append(docs, [exporter |-> "PdfDocExporter", path |-> output_path(a, "pdf")]),
                    arts)
           [] f = "json" ->
                exporters_loop(a, Tail(fs), docs,
                    Append(arts, [exporter |-> "JsonArtifactExporter",
                                  path |-> output_path(a, "artifact.json")]))
           [] f = "rmp" ->
                exporters_loop(a, Tail(fs), docs,
                    Append(arts, [exporter |-> "RmpArtifactExporter",
                                  path |-> output_path(a, "artifact.rmp")]))
           [] f = "web_socket" ->
                exporters_loop(a, Tail(fs), docs,
                    Append(arts, [exporter |-> "WebSocketArtifactExporter",
                                  url |-> IF is_empty(a.web_socket) THEN DefaultWsUrl
                                          ELSE a.web_socket]))
           [] OTHER -> Panicked("unknown format: " \o f)

prepare_exporters(a) ==
    IF is_empty(a.output) /\ parent(Path_new(a.entry_file)) = None
    THEN Panicked("called Option::unwrap() on a None value")
    ELSE exporters_loop(a, formats(a), <<>>, <<>>)

-----------------------------------------------------------------------------
(* Calls of prepare_exporters *)

Vocabulary == {"pdf", "json", "rmp", "web_socket"}
Tags == Vocabulary \cup {"html", "svg"}

Outputs == {"", "out", "build/out"}
EntryFiles == {"main.typ", "docs/main.typ", "/w/ch1/a.b.typ", "notes/intro"}
WebSockets == {"", "127.0.0.1:9000"}

CompileArgs ==
    [ output : Outputs, format : SeqsUpTo(Tags, MaxFormats),
      web_socket : WebSockets, entry_file : EntryFiles ]

InitExport ==
    /\ args \in CompileArgs
    /\ exporters = Pending
    /\ web_font = NoWebFont
    /\ font_info = Pending
    /\ host_font = <<>>
    /\ converted = Pending
    /\ book = <<>>
    /\ fonts = <<>>
    /\ last_add = NoCall
    /\ renders = <<>>
    /\ aborted = FALSE

PrepareExporters ==
    /\ exporters = Pending
    /\ ~aborted
    /\ exporters' = prepare_exporters(args)
    /\ aborted' = (exporters'.outcome = "panic")
    /\ UNCHANGED <<host_font, converted, web_font, font_info, book, fonts, last_add, args, renders>>

NextExport == PrepareExporters

SpecExport == InitExport /\ [][NextExport]_vars

Range(f) == { f[i] : i \in DOMAIN f }

Requested == Range(args.format)

Effective ==
    LET s == Requested \cup (IF args.web_socket # "" THEN {"web_socket"} ELSE {})
    IN  IF s = {} THEN {"pdf", "json"} ELSE s

TagOf(e) ==
    CASE e.exporter = "PdfDocExporter" -> "pdf"
      [] e.exporter = "JsonArtifactExporter" -> "json"
      [] e.exporter = "RmpArtifactExporter" -> "rmp"
      [] e.exporter = "WebSocketArtifactExporter" -> "web_socket"

Ascending(es) == \A i, j \in 1..Len(es) : i < j => str_lt(TagOf(es[i]), TagOf(es[j]))

RECURSIVE Reverse(_)
Reverse(v) == IF Len(v) = 0 THEN <<>> ELSE Append(Reverse(Tail(v)), v[1])

\* C5: for accepted tags, the call returns one exporter per distinct tag of
\* the effective set, each list in ascending tag order (pdf in the document
\* list, the others in the artifact list); the outcome is the same for the
\* reversed and for the doubled request; an empty request without address
\* gives one pdf document-exporter and one json artifact-exporter.
C5_OnePerTagSorted ==
    exporters # Pending =>
        /\ Effective \subseteq Vocabulary =>
              /\ exporters.outcome = "returned"
              /\ Len(exporters.doc_exporters) + Len(exporters.artifact_exporters)
                    = Cardinality(Effective)
              /\ { TagOf(e) : e \in Range(exporters.doc_exporters) } = Effective \cap {"pdf"}
              /\ { TagOf(e) : e \in Range(exporters.artifact_exporters) } = Effective \ {"pdf"}
              /\ Ascending(exporters.doc_exporters)
              /\ Ascending(exporters.artifact_exporters)
        /\ prepare_exporters([args EXCEPT !.format = Reverse(args.format)]) = exporters
        /\ prepare_exporters([args EXCEPT !.format = args.format \o args.format]) = exporters
        /\ (args.format = <<>> /\ args.web_socket = "") =>
              /\ Len(exporters.doc_exporters) = 1
              /\ exporters.doc_exporters[1].exporter = "PdfDocExporter"
              /\ Len(exporters.artifact_exporters) = 1
              /\ exporters.artifact_exporters[1].exporter = "JsonArtifactExporter"

C5_Witness ==
    /\ exporters # Pending
    /\ args.format = <<"rmp", "json", "rmp">>
    /\ args.web_socket # ""
    /\ exporters.outcome = "returned"
    /\ Len(exporters.artifact_exporters) = 3

\* C6: a request with a tag outside the vocabulary ends in a configuration
\* error returned to the caller, without aborting the process and without
\* any exporter handed back.
C6_UnknownTagIsConfigError ==
    (exporters # Pending /\ ~(Effective \subseteq Vocabulary)) =>
        /\ exporters.outcome = "error"
        /\ ~aborted

FileExporters ==
    { e \in Range(exporters.doc_exporters) \cup Range(exporters.artifact_exporters) :
        e.exporter # "WebSocketArtifactExporter" }

ExtOf(e) ==
    CASE e.exporter = "PdfDocExporter" -> "pdf"
      [] e.exporter = "JsonArtifactExporter" -> "artifact.json"
      [] e.exporter = "RmpArtifactExporter" -> "artifact.rmp"

\* the directory the output argument (or the entry file's directory) names
BaseDir ==
    IF args.output # "" THEN Path_new(args.output)
    ELSE SubSeq(Path_new(args.entry_file), 1, Len(Path_new(args.entry_file)) - 1)

EntryName == Path_new(args.entry_file)[Len(Path_new(args.entry_file))]

\* the entry file name up to its last '.', or whole when it has no inner '.'
EntryBaseName ==
    LET dots == { i \in 2..Len(EntryName) : SubSeq(EntryName, i, i) = "." }
    IN  IF dots = {} THEN EntryName ELSE SubSeq(EntryName, 1, SetMax(dots) - 1)

\* C7 (as stated): every file exporter's path is
\* <base>/output/<entry-base-name>.<ext>.
C7_PathInsideOutputDir ==
    (exporters # Pending /\ exporters.outcome = "returned") =>
        \A e \in FileExporters :
            e.path = BaseDir \o <<"output", EntryBaseName \o "." \o ExtOf(e)>>

\* C7 (amended): every file exporter's path is <base>/<entry-base-name>.<ext>,
\* where <base> is the output argument, or the entry file's directory when
\* the argument is empty: the "output" component is replaced by the file name.
C7_PathBesideOutputDir ==
    (exporters # Pending /\ exporters.outcome = "returned") =>
        \A e \in FileExporters :
            e.path = BaseDir \o <<EntryBaseName \o "." \o ExtOf(e)>>

C7_Witness ==
    /\ exporters # Pending
    /\ exporters.outcome = "returned"
    /\ args.output = "build/out"
    /\ args.entry_file = "/w/ch1/a.b.typ"
    /\ \E e \in FileExporters : e.path = <<"build", "out", "a.b.artifact.json">>

-----------------------------------------------------------------------------
(* Host font descriptors: a JS object is the sequence of its entries *)

JsString(x) == [t |-> "string", s |-> x]
JsNumber == [t |-> "number"]
JsObject == [t |-> "object"]
JsHandle(id) == [t |-> "handle", id |-> id]
JsFunction(id) == [t |-> "function", id |-> id]
\* a value that deserializes to a FontInfoCache with the given info list
JsFontInfoCache(infos) == [t |-> "cache", info |-> infos]

\* FontBuilder::to_string: Ok(string), or a panic from the unwrap
to_string(field, val) ==
    IF val.t = "string" THEN [outcome |-> "ok", val |-> val.s]
    ELSE [outcome |-> "panic", msg |-> "expected string for " \o field]

\* Option of a host value
Some(v) == [some |-> TRUE, val |-> v]
Nothing == [some |-> FALSE]

EmptyBuilder ==
    [ postscript_name |-> "", family |-> "", full_name |-> "", style |-> "",
      font_ref |-> Nothing, font_blob_loader |-> Nothing, font_cache |-> Nothing ]

\* the `for (k, v) in entries` loop with its match on the key
RECURSIVE entries_loop(_, _)
entries_loop(entries, st) ==
    IF Len(entries) = 0 THEN [outcome |-> "ok", val |-> st]
    ELSE
      LET k == entries[1][1]
          v == entries[1][2]
          rest == Tail(entries)
      IN
      CASE k = "postscriptName" ->
             IF to_string("web_font.postscriptName", v).outcome = "ok"
             THEN entries_loop(rest, [st EXCEPT !.postscript_name = v.s])
             ELSE to_string("web_font.postscriptName", v)
        [] k = "family" ->
             IF to_string("web_font.family", v).outcome = "ok"
             THEN entries_loop(rest, [st EXCEPT !.family = v.s])
             ELSE to_string("web_font.family", v)
        [] k = "fullName" ->
             IF to_string("web_font.fullName", v).outcome = "ok"
             THEN entries_loop(rest, [st EXCEPT !.full_name = v.s])
             ELSE to_string("web_font.fullName", v)
        [] k = "style" ->
             IF to_string("web_font.style", v).outcome = "ok"
             THEN entries_loop(rest, [st EXCEPT !.style = v.s])
             ELSE to_string("web_font.style", v)
        [] k = "ref" -> entries_loop(rest, [st EXCEPT !.font_ref = Some(v)])
        [] k = "info" ->
             entries_loop(rest, [st EXCEPT !.font_cache =
                                    IF v.t = "cache" THEN Some(v.info) ELSE Nothing])
        [] k = "blob" ->
             IF v.t = "function"
             THEN entries_loop(rest, [st EXCEPT !.font_blob_loader = Some(v)])
             ELSE [outcome |-> "err", msg |-> "blob is not a function"]
        [] OTHER -> [outcome |-> "panic", msg |-> "unknown key for web_font: " \o k]

\* A variant of font_web_to_typst that prefers the inferred FontInfo and
\* falls back on the cache only when the inference fails.
font_web_to_typst_infer_first(val) ==
    LET parsed == entries_loop(val, EmptyBuilder) IN
    IF parsed.outcome # "ok" THEN parsed
    ELSE
      LET st == parsed.val
          inferred == infer_info_from_web_font(
                          [ family |-> st.family, full_name |-> st.full_name,
                            postscript_name |-> st.postscript_name, style |-> st.style ])
      IN
      IF ~st.font_cache.some /\ ~inferred.ok
         THEN [outcome |-> "err", msg |-> inferred.err]
      ELSE IF ~st.font_ref.some
         THEN [outcome |-> "err", msg |-> "Could not find font reference for " \o st.family]
      ELSE IF ~st.font_blob_loader.some
         THEN [outcome |-> "err", msg |-> "Could not find font blob loader for " \o st.family]
      ELSE [ outcome |-> "ok",
             font_ref |-> st.font_ref.val,
             font_blob_loader |-> st.font_blob_loader.val,
             font_info |-> IF inferred.ok THEN <<inferred.val>>
                           ELSE st.font_cache.val ]

\* FontBuilder::font_web_to_typst
font_web_to_typst(val) ==
    LET parsed == entries_loop(val, EmptyBuilder) IN
    IF parsed.outcome # "ok" THEN parsed
    ELSE
      LET st == parsed.val
          inferred == infer_info_from_web_font(
                          [ family |-> st.family, full_name |-> st.full_name,
                            postscript_name |-> st.postscript_name, style |-> st.style ])
      IN
      IF ~st.font_cache.some /\ ~inferred.ok
         THEN [outcome |-> "err", msg |-> inferred.err]
      ELSE IF ~st.font_ref.some
         THEN [outcome |-> "err", msg |-> "Could not find font reference for " \o st.family]
      ELSE IF ~st.font_blob_loader.some
         THEN [outcome |-> "err", msg |-> "Could not find font blob loader for " \o st.family]
      ELSE [ outcome |-> "ok",
             font_ref |-> st.font_ref.val,
             font_blob_loader |-> st.font_blob_loader.val,
             font_info |-> IF st.font_cache.some THEN st.font_cache.val
                           ELSE <<inferred.val>> ]

-----------------------------------------------------------------------------
(* Host descriptors and font buffers handed to the searcher *)

InfoOf(family, full_name, style) ==
    infer_info_from_web_font([ family |-> family, full_name |-> full_name,
                               postscript_name |-> "", style |-> style ]).val

ValidExample ==
    << <<"family", JsString("Example")>>, <<"fullName", JsString("Example Bold Italic")>>,
       <<"postscriptName", JsString("Example-BoldItalic")>>, <<"style", JsString("")>>,
       <<"ref", JsHandle("r1")>>, <<"blob", JsFunction("b1")>> >>

ValidNoto ==
    << <<"family", JsString("Noto Sans")>>, <<"fullName", JsString("Noto Sans Mono Light")>>,
       <<"style", JsString("Light")>>,
       <<"ref", JsHandle("r2")>>, <<"blob", JsFunction("b2")>> >>

WithCache ==
    << <<"family", JsString("")>>,
       <<"info", JsFontInfoCache(<< InfoOf("Cached", "Cached Thin", "Thin"),
                                    InfoOf("Cached", "Cached Black Italic", "Black") >>)>>,
       <<"ref", JsHandle("r3")>>, <<"blob", JsFunction("b3")>> >>

NoFamily ==
    << <<"family", JsString("")>>, <<"fullName", JsString("")>>,
       <<"ref", JsHandle("r4")>>, <<"blob", JsFunction("b4")>> >>

NoRef ==
    << <<"family", JsString("Example")>>, <<"fullName", JsString("Example Condensed")>>,
       <<"blob", JsFunction("b5")>> >>

NoBlob ==
    << <<"family", JsString("Example")>>, <<"fullName", JsString("Example Condensed")>>,
       <<"ref", JsHandle("r6")>> >>

UnknownKey ==
    << <<"family", JsString("Example")>>, <<"weight", JsNumber>>,
       <<"ref", JsHandle("r7")>>, <<"blob", JsFunction("b7")>> >>

NonStringStyle ==
    << <<"family", JsString("Example")>>, <<"style", JsNumber>>,
       <<"ref", JsHandle("r8")>>, <<"blob", JsFunction("b8")>> >>

HostFonts ==
    { ValidExample, ValidNoto, WithCache, NoFamily, NoRef, NoBlob, UnknownKey, NonStringStyle }

Buffers ==
    { [id |-> "empty.ttf", faces |-> <<>>],
      [id |-> "mono.ttf", faces |-> << InfoOf("Courier Mono", "Courier Mono", "Regular") >>],
      [id |-> "coll.ttc", faces |-> << InfoOf("Coll", "Coll Light", "Light"),
                                       InfoOf("Coll", "Coll Bold", "Bold") >>] }

\* font_web_to_typst of each descriptor of HostFonts (a table, so that the
\* conversion of a descriptor is evaluated once)
Converted == [ v \in HostFonts |-> font_web_to_typst(v) ]

-----------------------------------------------------------------------------
(* BrowserFontSearcher *)

WebFontSlot(info, context, blob, index, i) ==
    [ loader |-> "WebFontLoader",
      font |-> [info |-> info, context |-> context, blob |-> blob, index |-> index],
      index |-> i ]

BufferFontSlot(buffer, i) ==
    [ loader |-> "BufferFontLoader", buffer |-> buffer, index |-> i ]

\* A variant of the inner loop that creates a slot for the first face only.
RECURSIVE push_faces_first_slot_only(_, _, _, _, _, _)
push_faces_first_slot_only(bk, fs, font_ref, blob, infos, i) ==
    IF i >= Len(infos) THEN [book |-> bk, fonts |-> fs]
    ELSE push_faces_first_slot_only(
             Append(bk, infos[i + 1]),
             IF i = 0 THEN Append(fs, WebFontSlot(infos[i + 1], font_ref, blob, Len(fs), i))
             ELSE fs,
             font_ref, blob, infos, i + 1)

\* the `for (i, info) in font_info.into_iter().enumerate()` loop
RECURSIVE push_faces(_, _, _, _, _, _)
push_faces(bk, fs, font_ref, blob, infos, i) ==
    IF i >= Len(infos) THEN [book |-> bk, fonts |-> fs]
    ELSE push_faces(
             Append(bk, infos[i + 1]),
             Append(fs, WebFontSlot(infos[i + 1], font_ref, blob, Len(fs), i)),
             font_ref, blob, infos, i + 1)

\* BrowserFontSearcher::add_web_fonts: the `for v in fonts.iter()` loop;
\* an Err of font_web_to_typst returns at once, a panic aborts.
RECURSIVE add_web_fonts(_, _, _)
add_web_fonts(bk, fs, batch) ==
    IF Len(batch) = 0 THEN [book |-> bk, fonts |-> fs, result |-> [outcome |-> "ok"]]
    ELSE
      LET r == Converted[batch[1]] IN
      IF r.outcome # "ok" THEN [book |-> bk, fonts |-> fs, result |-> r]
      ELSE LET pushed == push_faces(bk, fs, r.font_ref, r.font_blob_loader, r.font_info, 0)
           IN  add_web_fonts(pushed.book, pushed.fonts, Tail(batch))

\* FontInfo::iter over a font buffer: the faces the buffer holds
FontInfo_iter(buffer) == buffer.faces

\* BrowserFontSearcher::add_font_data
RECURSIVE add_font_data(_, _, _, _)
add_font_data(bk, fs, buffer, i) ==
    IF i >= Len(FontInfo_iter(buffer)) THEN [book |-> bk, fonts |-> fs]
    ELSE add_font_data(Append(bk, FontInfo_iter(buffer)[i + 1]),
                       Append(fs, BufferFontSlot(buffer, i)),
                       buffer, i + 1)

-----------------------------------------------------------------------------
(* Calls on one BrowserFontSearcher *)

InitFonts ==
    /\ book = <<>>
    /\ fonts = <<>>
    /\ last_add = NoCall
    /\ web_font = NoWebFont
    /\ font_info = Pending
    /\ host_font = <<>>
    /\ converted = Pending
    /\ args = NoCall
    /\ exporters = Pending
    /\ renders = <<>>
    /\ aborted = FALSE

AddWebFonts ==
    /\ ~aborted
    /\ Len(book) < MaxFaces
    /\ \E batch \in SeqsUpTo(HostFonts, MaxBatch) :
         LET r == add_web_fonts(book, fonts, batch) IN
         /\ book' = r.book
         /\ fonts' = r.fonts
         /\ last_add' = [ op |-> "add_web_fonts", batch |-> batch,
                          result |-> r.result, before |-> Len(book) ]
         /\ aborted' = (r.result.outcome = "panic")
    /\ UNCHANGED <<host_font, converted, web_font, font_info, args, exporters, renders>>

AddFontData ==
    /\ ~aborted
    /\ Len(book) < MaxFaces
    /\ \E buffer \in Buffers :
         LET r == add_font_data(book, fonts, buffer, 0) IN
         /\ book' = r.book
         /\ fonts' = r.fonts
         /\ last_add' = [ op |-> "add_font_data", buffer |-> buffer, before |-> Len(book) ]
    /\ UNCHANGED <<host_font, converted, web_font, font_info, args, exporters, renders, aborted>>

NextFonts == AddWebFonts \/ AddFontData

SpecFonts == InitFonts /\ [][NextFonts]_vars

IsValid(v) == Converted[v].outcome = "ok"

\* the FontInfo lists of the valid descriptors of a batch, concatenated
RECURSIVE ValidFaces(_)
ValidFaces(batch) ==
    IF Len(batch) = 0 THEN <<>>
    ELSE (IF IsValid(batch[1]) THEN Converted[batch[1]].font_info ELSE <<>>)
         \o ValidFaces(Tail(batch))

\* C8: after an add_web_fonts call the process is not aborted and the faces
\* of every valid descriptor of the batch, before or after a failing one,
\* have been appended to the book, each with its slot.
C8_FailuresAreIsolated ==
    last_add.op = "add_web_fonts" =>
        /\ ~aborted
        /\ SubSeq(book, last_add.before + 1, Len(book)) = ValidFaces(last_add.batch)
        /\ Len(fonts) = Len(book)

SlotMatchesInfo(k) ==
    IF fonts[k].loader = "WebFontLoader"
    THEN fonts[k].font.info = book[k] /\ fonts[k].font.index = k - 1
    ELSE /\ fonts[k].index < Len(FontInfo_iter(fonts[k].buffer))
         /\ FontInfo_iter(fonts[k].buffer)[fonts[k].index + 1] = book[k]

Lockstep ==
    /\ Len(book) = Len(fonts)
    /\ \A k \in 1..Len(fonts) : SlotMatchesInfo(k)

AppendOnly ==
    /\ Len(book') >= Len(book)
    /\ SubSeq(book', 1, Len(book)) = book
    /\ Len(fonts') >= Len(fonts)
    /\ SubSeq(fonts', 1, Len(fonts)) = fonts

\* C9: book and fonts always have the same length, the slot at index k is
\* the loader created for the FontInfo at book index k, and every step only
\* appends to both (entries keep their index).
C9_Lockstep == [](Lockstep) /\ [][AppendOnly]_vars

C9_Witness ==
    /\ last_add.op = "add_web_fonts"
    /\ last_add.result.outcome = "err"
    /\ Len(book) > last_add.before
    /\ last_add.before > 0
    /\ Len(book) = Len(fonts)
    /\ \E k \in 1..Len(fonts) : fonts[k].loader = "BufferFontLoader"
    /\ \E k \in 1..Len(fonts) : fonts[k].loader = "WebFontLoader" /\ fonts[k].index = 1

-----------------------------------------------------------------------------
(* Conversion of one host descriptor *)

CachedInfos == { InfoOf("Cached", "Cached Thin", "Thin"),
                 InfoOf("Cached", "Cached Black Italic", "Black") }

\* the value under key "info": absent, not a FontInfoCache, or a cache
InfoValues ==
    {Nothing, Some(JsObject)}
        \cup { Some(JsFontInfoCache(c)) : c \in SeqsUpTo(CachedInfos, MaxCacheFaces) }

HostStyles == {"", "Bold", "Light Condensed"}

OptionalEntry(k, opt) == IF opt.some THEN << <<k, opt.val>> >> ELSE <<>>

HostDescriptor(family, full_name, style, info, ref, blob) ==
    << <<"family", JsString(family)>>, <<"fullName", JsString(full_name)>>,
       <<"style", JsString(style)>> >>
    \o OptionalEntry("info", info) \o OptionalEntry("ref", ref) \o OptionalEntry("blob", blob)

HostDescriptors ==
    { HostDescriptor(f, n, st, i, r, b) :
        f \in Families, n \in FullNames, st \in HostStyles, i \in InfoValues,
        r \in {Nothing, Some(JsHandle("r1"))}, b \in {Nothing, Some(JsFunction("b1"))} }

InitConvert ==
    /\ host_font \in HostDescriptors
    /\ converted = Pending
    /\ web_font = NoWebFont
    /\ font_info = Pending
    /\ book = <<>>
    /\ fonts = <<>>
    /\ last_add = NoCall
    /\ args = NoCall
    /\ exporters = Pending
    /\ renders = <<>>
    /\ aborted = FALSE

FontWebToTypst ==
    /\ converted = Pending
    /\ converted' = font_web_to_typst(host_font)
    /\ aborted' = (converted'.outcome = "panic")
    /\ UNCHANGED <<host_font, web_font, font_info, book, fonts, last_add, args,
                   exporters, renders>>

NextConvert == FontWebToTypst

SpecConvert == InitConvert /\ [][NextConvert]_vars

HasKey(val, k) == \E i \in 1..Len(val) : val[i][1] = k
ValueOf(val, k) == val[CHOOSE i \in 1..Len(val) : val[i][1] = k][2]
StringOf(val, k) == IF HasKey(val, k) THEN ValueOf(val, k).s ELSE ""

HasDecodableCache(val) == HasKey(val, "info") /\ ValueOf(val, "info").t = "cache"

\* C11: a descriptor with ref, blob and a cache that decodes converts to
\* exactly the cache's FontInfo list (same faces, same order), whatever its
\* strings are; a converted descriptor without such a cache yields exactly
\* one FontInfo, the one inferred from its strings.
C11_CacheVerbatim ==
    converted # Pending =>
        /\ (HasDecodableCache(host_font) /\ HasKey(host_font, "ref") /\ HasKey(host_font, "blob")) =>
              /\ converted.outcome = "ok"
              /\ converted.font_info = ValueOf(host_font, "info").info
        /\ (converted.outcome = "ok" /\ ~HasDecodableCache(host_font)) =>
              /\ Len(converted.font_info) = 1
              /\ converted.font_info[1] =
                    infer_info_from_web_font(
                        [ family |-> StringOf(host_font, "family"),
                          full_name |-> StringOf(host_font, "fullName"),
                          postscript_name |-> StringOf(host_font, "postscriptName"),
                          style |-> StringOf(host_font, "style") ]).val

C11_Witness ==
    /\ converted # Pending
    /\ converted.outcome = "ok"
    /\ HasDecodableCache(host_font)
    /\ StringOf(host_font, "family") = "Example"
    /\ StringOf(host_font, "style") = "Bold"
    /\ Len(converted.font_info) = 2
    /\ converted.font_info[1] # converted.font_info[2]
    /\ converted.font_info = ValueOf(host_font, "info").info

-----------------------------------------------------------------------------
(* TypstRenderer::render *)

\* artifact_content strings: text that is no Artifact, or the JSON of an
\* Artifact with the given number of pages
NotAnArtifact == [json_artifact |-> FALSE]
ArtifactJson(n) == [json_artifact |-> TRUE, pages |-> n]

ArtifactContents == {NotAnArtifact} \cup { ArtifactJson(n) : n \in 0..MaxPages }

\* serde_json::from_str::<Artifact>
serde_json_from_str(content) ==
    IF content.json_artifact THEN Ok([pages |-> content.pages])
    ELSE Err("DecodeError")

\* Artifact::to_document: the document has the artifact's pages
to_document(artifact) == [pages |-> artifact.pages]

\* render_internal: rasterizes page 0 at scale 1 on fill "ffffff"
render_internal(document, pixel_per_pt, fill) ==
    Ok([image_of_page |-> 0, pixel_per_pt |-> pixel_per_pt, fill |-> fill])

\* TypstRenderer::render
render(content) ==
    LET decoded == serde_json_from_str(content) IN
    IF ~decoded.ok
    THEN [outcome |-> "panic", msg |-> "called Result::unwrap() on an Err value"]
    ELSE LET document == to_document(decoded.val) IN
         IF document.pages = 0
         THEN [outcome |-> "returned", result |-> Err("no pages in artifact")]
         ELSE [outcome |-> "returned", result |-> render_internal(document, 1, "ffffff")]

InitRender ==
    /\ renders = <<>>
    /\ aborted = FALSE
    /\ web_font = NoWebFont
    /\ font_info = Pending
    /\ host_font = <<>>
    /\ converted = Pending
    /\ book = <<>>
    /\ fonts = <<>>
    /\ last_add = NoCall
    /\ args = NoCall
    /\ exporters = Pending

Render ==
    /\ ~aborted
    /\ Len(renders) < MaxRenders
    /\ \E content \in ArtifactContents :
         /\ renders' = Append(renders, [content |-> content, call |-> render(content)])
         /\ aborted' = (render(content).outcome = "panic")
    /\ UNCHANGED <<host_font, converted, web_font, font_info, book, fonts, last_add, args, exporters>>

NextRender == Render

SpecRender == InitRender /\ [][NextRender]_vars

\* C10: every render request that cannot produce an image returns an error
\* value (DecodeError for undecodable bytes, an error for zero pages) and no
\* image, the renderer is never aborted, and a valid artifact is served
\* whatever came before it.
C10_RenderErrorsAreValues ==
    /\ ~aborted
    /\ \A i \in 1..Len(renders) :
         LET r == renders[i] IN
         /\ r.call.outcome = "returned"
         /\ ~r.content.json_artifact => r.call.result = Err("DecodeError")
         /\ (r.content.json_artifact /\ r.content.pages = 0) =>
                r.call.result = Err("no pages in artifact")
         /\ (r.content.json_artifact /\ r.content.pages > 0) => r.call.result.ok

====
